---- MODULE Spec2Model ----
(***************************************************************************)
(* A model of the segment acquisition pipeline of m3u8-downloader:         *)
(* Downloader.Download (internal/downloader/downloader.go) with the        *)
(* playlist functions of parser.go.  The workers of downloadSegments       *)
(* are interleaved step by step; downloadFile and mergeSegments are split  *)
(* at the operations that touch the file system.  A request, a write, a    *)
(* flush, a rename or a removal whose error result the code inspects may   *)
(* fail; os.Stat fails when the file is not there; a cleanup call whose    *)
(* result the code discards (out.Close, os.Remove of a temporary file) is  *)
(* taken to succeed.                                                       *)
(***************************************************************************)
EXTENDS Integers, Sequences, FiniteSets, TLC

\* ------------------------------------------------------------ bounds
MaxSeg == 2
MaxThreads == 2
MaxRetryBound == 2
MaxBlocks == 4

\* ------------------------------------------------- program constants
PacketSize == 188
HeaderPackets == 3
SyncByte == 71

\* --------------------------------------------------------- file data
\* File contents are sequences of blocks; a block stands for len bytes of
\* which the first is hd.  seg and run say whose bytes they are (run 0: an
\* earlier run of the program, run 1: this run).
Blk(h, l, s, r) == [hd |-> h, len |-> l, seg |-> s, run |-> r]

NoFile == [exists |-> FALSE, data |-> <<>>]
File(d) == [exists |-> TRUE, data |-> d]

RECURSIVE Size(_)
Size(d) == IF d = <<>> THEN 0 ELSE Head(d).len + Size(Tail(d))

\* The byte at offset off of d (0 for every byte that is not the first of a block).
RECURSIVE ByteAt(_, _)
ByteAt(d, off) ==
    IF d = <<>> THEN 0
    ELSE IF off = 0 THEN Head(d).hd
    ELSE IF off < Head(d).len THEN 0
    ELSE ByteAt(Tail(d), off - Head(d).len)

RECURSIVE Flatten(_)
Flatten(ss) == IF ss = <<>> THEN <<>> ELSE Head(ss) \o Flatten(Tail(ss))

Min(a, b) == IF a < b THEN a ELSE b

\* The response bodies a server may send for a segment: a transport stream
\* packet, nothing, a packet that does not start with the sync byte.
BodyKinds == {"ts", "empty", "nosync"}
Body(kind, i) ==
    CASE kind = "ts" -> <<Blk(SyncByte, PacketSize, i, 1)>>
      [] kind = "nosync" -> <<Blk(0, PacketSize, i, 1)>>
      [] OTHER -> <<>>

\* What a failed earlier run left under a segment's final filename, and an
\* output file of an earlier run.
LeftoverData(i) == <<Blk(SyncByte, PacketSize, i, 0)>>
OldOutput == <<Blk(SyncByte, PacketSize, 0, 0)>>

\* ValidateTS: nil ("ok") or the error.
ValidateTSCountsPartial(f) ==
    IF ~f.exists THEN "open"
    ELSE LET n == Min(Size(f.data), PacketSize * HeaderPackets)
             validSyncBytes == Cardinality({k \in 0..(HeaderPackets - 1) :
                                   /\ k * PacketSize < n
                                   /\ ByteAt(f.data, k * PacketSize) = SyncByte})
         IN IF n < PacketSize THEN "too small"
            ELSE IF validSyncBytes = 0 THEN "no sync"
            ELSE "ok"
ValidateTS(f) ==
    IF ~f.exists THEN "open"
    ELSE LET n == Min(Size(f.data), PacketSize * HeaderPackets)
             validSyncBytes == Cardinality({k \in 0..(HeaderPackets - 1) :
                                   /\ k * PacketSize < n
                                   /\ k * PacketSize + PacketSize <= n
                                   /\ ByteAt(f.data, k * PacketSize) = SyncByte})
         IN IF n < PacketSize THEN "too small"
            ELSE IF validSyncBytes = 0 THEN "no sync"
            ELSE "ok"

NoName == -1

\* ---------------------------------------------------------- playlists
\* A playlist text is a sequence of lines.  A line is a #EXT-X-STREAM-INF tag
\* with its attribute list, another line that starts with "#", a URI, or
\* an empty line.  A URI is absolute (dir is its directory) or relative.
Attr(n, v) == [name |-> n, value |-> v]
Inf(a) == [kind |-> "inf", attrs |-> a, abs |-> FALSE, dir |-> "", file |-> "", n |-> 0]
Tag == [kind |-> "tag", attrs |-> <<>>, abs |-> FALSE, dir |-> "", file |-> "", n |-> 0]
Blank == [kind |-> "blank", attrs |-> <<>>, abs |-> FALSE, dir |-> "", file |-> "", n |-> 0]
Uri(a, d, f, k) == [kind |-> "uri", attrs |-> <<>>, abs |-> a, dir |-> d, file |-> f, n |-> k]

\* A URL: a directory and a file name (a name and a number); NoURL is "".
URL(d, f, k) == [dir |-> d, file |-> f, n |-> k]
NoURL == URL("", "", 0)

\* utils.GetBaseURL: the URL without its file name.
GetBaseURL(u) == u.dir

\* strings.HasPrefix(line, "#")
IsComment(line) == line.kind \in {"inf", "tag"}

\* strings.HasPrefix(line, "http") and utils.ResolveURL(baseURL, line).
ResolveLine(base, line) ==
    IF line.abs THEN URL(line.dir, line.file, line.n) ELSE URL(base, line.file, line.n)

\* The attribute names n for which "BANDWIDTH=" occurs in "n=".
BandwidthMatches == {"BANDWIDTH", "AVERAGE-BANDWIDTH"}

\* parseBandwidth: the number after the first occurrence of "BANDWIDTH=" in
\* the tag line, 0 when there is none.
parseBandwidth(streamInfo) ==
    LET hits == {k \in 1..Len(streamInfo.attrs) :
                    streamInfo.attrs[k].name \in BandwidthMatches}
    IN IF hits = {} THEN 0
       ELSE streamInfo.attrs[CHOOSE k \in hits : \A j \in hits : k <= j].value

\* strings.Contains(content, "#EXT-X-STREAM-INF")
IsMasterPlaylist(content) == \E k \in 1..Len(content) : content[k].kind = "inf"

\* The scan of SelectVariantStream from line k on: the line selected, Blank
\* (whose URL is "") when none is.  streamInfo is the pending tag, Blank for "".
RECURSIVE ScanVariants(_, _, _, _, _)
ScanVariants(content, k, highestBandwidth, selected, streamInfo) ==
    IF k > Len(content) THEN selected
    ELSE LET line == content[k] IN
         IF line.kind = "inf"
         THEN ScanVariants(content, k + 1, highestBandwidth, selected, line)
         ELSE IF streamInfo.kind = "inf" /\ ~IsComment(line)
         THEN IF parseBandwidth(streamInfo) > highestBandwidth
              THEN ScanVariants(content, k + 1, parseBandwidth(streamInfo), line, Blank)
              ELSE ScanVariants(content, k + 1, highestBandwidth, selected, Blank)
         ELSE ScanVariants(content, k + 1, highestBandwidth, selected, streamInfo)

\* SelectVariantStream: the URL of the selected variant, NoURL for the
\* error "no valid streams found in master playlist".
SelectVariantStream(content, base) ==
    LET selected == ScanVariants(content, 1, 0, Blank, Blank)
    IN IF selected.kind # "uri" THEN NoURL ELSE ResolveLine(base, selected)

\* ParseSegments: the lines that are neither empty nor comments, resolved.
RECURSIVE ParseSegments(_, _)
ParseSegments(content, base) ==
    IF content = <<>> THEN <<>>
    ELSE IF Head(content).kind = "uri"
    THEN <<ResolveLine(base, Head(content))>> \o ParseSegments(Tail(content), base)
    ELSE ParseSegments(Tail(content), base)

VARIABLES
    Threads, MaxRetry, ValidateFiles,   \* config
    segments,                           \* len(segments)
    segFile, segTmp,                    \* staging directory: segment_%05d.ts and its .tmp
    outputFile, outputTmp,              \* config.Output and its .tmp
    pc,                                 \* position of the orchestrating control flow
    wpc,                                \* position of each worker goroutine
    semaphore,                          \* number of tokens in the channel
    mu,                                 \* holder of the mutex, or NoName
    ctxDone,                            \* the cancellation signal
    segmentFiles, failedSegments, stillFailedSegments, retryCount,
    vi, mi, bufferedWriter, result, errSeg,
    \* history
    leftover, outputOrig, attempts, nfail, served, rounds, slept, mergeStarted, envFault,
    vanished,
    \* the playlist
    site, mediaLen,                     \* the server: the kind of document at the URL
                                        \* given, the length of its media playlists
    url, baseURL, playlistContent,      \* d.config.URL, baseURL, playlistContent
    segmentURLs,                        \* the result of ParseSegments
    fetches,                            \* history: the calls of utils.FetchURL
    \* the directories
    outputInStaging,                    \* config.Output lies inside config.OutputDir
    stagingDir,                         \* config.OutputDir exists
    badOrd,                             \* the ordinal whose body may be unsound
    mergeRuns, firstOutput              \* history: returns of mergeSegments, the output
                                        \* the first of them left

playlistVars == <<site, mediaLen, url, baseURL, playlistContent, segmentURLs, fetches>>
auxVars == <<playlistVars, outputInStaging, stagingDir, badOrd, mergeRuns, firstOutput>>
cfgVars == <<Threads, MaxRetry, ValidateFiles, segments, leftover, outputOrig, auxVars>>
fsVars == <<segFile, segTmp, outputFile, outputTmp>>
schedVars == <<semaphore, mu, segmentFiles, failedSegments, stillFailedSegments, retryCount>>
histVars == <<attempts, nfail, served, rounds, slept, mergeStarted, envFault, vanished>>
vars == <<cfgVars, fsVars, schedVars, histVars, pc, wpc, ctxDone, vi, mi, bufferedWriter, result, errSeg>>

Ord == 0..(segments - 1)

\* ------------------------------------------------------------- the site
\* What the server holds.  The URL given on the command line is TopURL.  A
\* media playlist lists n segments, the odd ones by relative reference.
TopURL == URL("a", "top", 0)
MediaPlaylist(n) ==
    <<Tag>> \o [j \in 1..n |-> IF j % 2 = 1 THEN Uri(FALSE, "", "seg", j)
                             ELSE Uri(TRUE, "cdn", "seg", j)]

\* The two variants of a master playlist: one by absolute URL in another
\* directory, one by relative reference.
Variant1 == Uri(TRUE, "b", "v", 1)
Variant2 == Uri(FALSE, "", "v", 2)
MasterPlaylist(a1, a2) == <<Tag, Inf(a1), Variant1, Tag, Inf(a2), Variant2>>

\* The attribute lists of the variants in the master playlists of the model.
OnlyBandwidth(b) == <<Attr("RESOLUTION", 0), Attr("BANDWIDTH", b)>>
AverageFirst(avg, b) == <<Attr("AVERAGE-BANDWIDTH", avg), Attr("BANDWIDTH", b)>>
NoBandwidth == <<Attr("RESOLUTION", 0)>>

SiteKinds == {"media", "lowHigh", "highLow", "averageFirst", "noBandwidth"}
TopContent(kind) ==
    CASE kind = "media" -> MediaPlaylist(mediaLen)
      [] kind = "lowHigh" -> MasterPlaylist(OnlyBandwidth(1), OnlyBandwidth(2))
      [] kind = "highLow" -> MasterPlaylist(OnlyBandwidth(2), OnlyBandwidth(1))
      [] kind = "averageFirst" -> MasterPlaylist(AverageFirst(1, 4), AverageFirst(2, 3))
      [] OTHER -> MasterPlaylist(NoBandwidth, NoBandwidth)

\* The bodies the model lets the server send for ordinal i: anything for
\* one segment, a transport stream packet for the others.
BodiesOf(i) == IF i = badOrd THEN BodyKinds ELSE {"ts"}

\* The document the server sends for a URL.
ServedAt(u) ==
    IF u = TopURL THEN TopContent(site) ELSE MediaPlaylist(mediaLen)

\* failedSegments and stillFailedSegments are slices the code appends to,
\* takes the length of and ranges over to launch one goroutine per element;
\* the order of their elements is never read.  They are kept as multisets:
\* l[i] is the number of times ordinal i is in the slice.
NoOrdinals == [i \in Ord |-> 0]
AppendOrdinal(l, i) == [l EXCEPT ![i] = @ + 1]
Members(l) == {i \in DOMAIN l : l[i] > 0}
RECURSIVE SumOver(_, _)
SumOver(l, S) ==
    IF S = {} THEN 0
    ELSE LET x == CHOOSE y \in S : TRUE IN l[x] + SumOver(l, S \ {x})
LenOf(l) == SumOver(l, DOMAIN l)

\* The initial state: the configuration main hands over, a staging directory that main.go's MkdirAll reuses when it
\* exists (a failed earlier run returns without removing its segment files)
\* and an output path, outside the staging directory, that may hold the
\* output of an earlier run.
Init ==
    /\ segments \in 1..MaxSeg
    /\ Threads \in 0..MaxThreads
    /\ MaxRetry \in 0..MaxRetryBound
    /\ ValidateFiles \in BOOLEAN
    /\ leftover \in {{}, {0}}
    /\ outputOrig \in {NoFile, File(OldOutput)}
    /\ segFile = [i \in 0..(segments - 1) |->
                    IF i \in leftover THEN File(LeftoverData(i)) ELSE NoFile]
    /\ segTmp = [i \in 0..(segments - 1) |-> NoFile]
    /\ outputFile = outputOrig
    /\ outputTmp = NoFile
    /\ pc = "initial"
    /\ wpc = [i \in 0..(segments - 1) |-> "idle"]
    /\ semaphore = 0
    /\ mu = NoName
    /\ ctxDone = FALSE
    /\ segmentFiles = [i \in 0..(segments - 1) |-> NoName]
    /\ failedSegments = [i \in 0..(segments - 1) |-> 0]
    /\ stillFailedSegments = [i \in 0..(segments - 1) |-> 0]
    /\ retryCount = 0
    /\ vi = 0
    /\ mi = 0
    /\ bufferedWriter = <<>>
    /\ result = "running"
    /\ errSeg = 0
    /\ attempts = [i \in 0..(segments - 1) |-> 0]
    /\ nfail = [i \in 0..(segments - 1) |-> 0]
    /\ served = [i \in 0..(segments - 1) |-> "none"]
    /\ rounds = 0
    /\ slept = 0
    /\ mergeStarted = FALSE
    /\ envFault = FALSE
    /\ vanished = FALSE
    /\ site = "media"
    /\ mediaLen = segments
    /\ url = TopURL
    /\ baseURL = GetBaseURL(TopURL)
    /\ playlistContent = MediaPlaylist(segments)
    /\ segmentURLs = ParseSegments(MediaPlaylist(segments), GetBaseURL(TopURL))
    /\ fetches = 1
    /\ outputInStaging = FALSE
    /\ stagingDir = TRUE
    /\ badOrd = 0
    /\ mergeRuns = 0
    /\ firstOutput = NoFile

\* The file under the name a result slot holds; no file has the empty name.
FileAt(name) == IF name \in DOMAIN segFile THEN segFile[name] ELSE NoFile

\* What the staging directory held under ordinal i's final name at the start.
InitialSeg(i) == IF i \in leftover THEN File(LeftoverData(i)) ELSE NoFile

\* --------------------------------------------------- Download, playlist
\* The state at the start of Download: nothing fetched, no segment known.
InitDownload ==
    /\ site \in SiteKinds
    /\ mediaLen \in 0..MaxSeg
    /\ Threads = 1
    /\ MaxRetry \in 0..1
    /\ ValidateFiles \in BOOLEAN
    /\ leftover = {}
    /\ outputOrig \in {NoFile, File(OldOutput)}
    /\ outputInStaging \in BOOLEAN
    /\ badOrd \in 0..(MaxSeg - 1)
    /\ stagingDir = TRUE
    /\ url = TopURL
    /\ baseURL = GetBaseURL(TopURL)
    /\ playlistContent = <<>>
    /\ segmentURLs = <<>>
    /\ fetches = 0
    /\ segments = 0
    /\ segFile = <<>>
    /\ segTmp = <<>>
    /\ outputFile = outputOrig
    /\ outputTmp = NoFile
    /\ pc = "start"
    /\ wpc = <<>>
    /\ semaphore = 0
    /\ mu = NoName
    /\ ctxDone = FALSE
    /\ segmentFiles = <<>>
    /\ failedSegments = <<>>
    /\ stillFailedSegments = <<>>
    /\ retryCount = 0
    /\ vi = 0
    /\ mi = 0
    /\ bufferedWriter = <<>>
    /\ result = "running"
    /\ errSeg = 0
    /\ attempts = <<>>
    /\ nfail = <<>>
    /\ served = <<>>
    /\ rounds = 0
    /\ slept = 0
    /\ mergeStarted = FALSE
    /\ envFault = FALSE
    /\ vanished = FALSE
    /\ mergeRuns = 0
    /\ firstOutput = NoFile

\* What no step of Download before downloadSegments changes, and what the
\* entry to downloadSegments sets up.
PlaylistFixed == <<Threads, MaxRetry, ValidateFiles, leftover, outputOrig, site, mediaLen,
                   outputInStaging, stagingDir, badOrd, mergeRuns, firstOutput, outputFile,
                   outputTmp, semaphore, mu, retryCount, rounds, slept, mergeStarted,
                   envFault, vanished, ctxDone, vi, mi, bufferedWriter, errSeg>>
PerSegment == <<segments, segFile, segTmp, wpc, segmentFiles, failedSegments,
                stillFailedSegments, attempts, nfail, served, segmentURLs>>

\* An error return of Download before downloadSegments.
PlaylistFail(kind) ==
    /\ result' = kind
    /\ pc' = "done"

\* utils.FetchURL(d.config.URL): one request, no retry.
FetchPlaylistRetries ==
    /\ pc = "start"
    /\ fetches' = fetches + 1
    /\ \/ /\ playlistContent' = ServedAt(url)
          /\ pc' = "resolve"
          /\ result' = result
       \/ /\ fetches = 0
          /\ UNCHANGED <<pc, result, playlistContent>>
       \/ /\ PlaylistFail("playlistFetch")
          /\ playlistContent' = playlistContent
    /\ UNCHANGED <<PlaylistFixed, PerSegment, url, baseURL>>
FetchPlaylist ==
    /\ pc = "start"
    /\ fetches' = fetches + 1
    /\ \/ /\ playlistContent' = ServedAt(url)
          /\ pc' = "resolve"
          /\ result' = result
       \/ /\ PlaylistFail("playlistFetch")
          /\ playlistContent' = playlistContent
    /\ UNCHANGED <<PlaylistFixed, PerSegment, url, baseURL>>

\* IsMasterPlaylist and, for a master playlist, SelectVariantStream and the
\* new d.config.URL and baseURL.
ResolveMaster ==
    /\ pc = "resolve"
    /\ IF ~IsMasterPlaylist(playlistContent)
       THEN /\ pc' = "parse"
            /\ UNCHANGED <<url, baseURL, result>>
       ELSE IF SelectVariantStream(playlistContent, baseURL) = NoURL
       THEN /\ PlaylistFail("noVariant")
            /\ UNCHANGED <<url, baseURL>>
       ELSE /\ url' = SelectVariantStream(playlistContent, baseURL)
            /\ baseURL' = GetBaseURL(SelectVariantStream(playlistContent, baseURL))
            /\ pc' = "fetchVariant"
            /\ result' = result
    /\ UNCHANGED <<PlaylistFixed, PerSegment, playlistContent, fetches>>

\* utils.FetchURL(variantURL)
FetchVariant ==
    /\ pc = "fetchVariant"
    /\ fetches' = fetches + 1
    /\ \/ /\ playlistContent' = ServedAt(url)
          /\ pc' = "parse"
          /\ result' = result
       \/ /\ PlaylistFail("variantFetch")
          /\ playlistContent' = playlistContent
    /\ UNCHANGED <<PlaylistFixed, PerSegment, url, baseURL>>

\* ParseSegments, the check of len(segments), and the entry to
\* downloadSegments, which makes the result slots.
ParsePlaylist ==
    /\ pc = "parse"
    /\ LET segs == ParseSegments(playlistContent, baseURL) IN
       IF Len(segs) = 0
       THEN /\ PlaylistFail("noSegments")
            /\ UNCHANGED PerSegment
       ELSE /\ segmentURLs' = segs
            /\ segments' = Len(segs)
            /\ segFile' = [i \in 0..(Len(segs) - 1) |->
                              IF i \in leftover THEN File(LeftoverData(i)) ELSE NoFile]
            /\ segTmp' = [i \in 0..(Len(segs) - 1) |-> NoFile]
            /\ wpc' = [i \in 0..(Len(segs) - 1) |-> "idle"]
            /\ segmentFiles' = [i \in 0..(Len(segs) - 1) |-> NoName]
            /\ failedSegments' = [i \in 0..(Len(segs) - 1) |-> 0]
            /\ stillFailedSegments' = [i \in 0..(Len(segs) - 1) |-> 0]
            /\ attempts' = [i \in 0..(Len(segs) - 1) |-> 0]
            /\ nfail' = [i \in 0..(Len(segs) - 1) |-> 0]
            /\ served' = [i \in 0..(Len(segs) - 1) |-> "none"]
            /\ pc' = "initial"
            /\ result' = result
    /\ UNCHANGED <<PlaylistFixed, url, baseURL, playlistContent, fetches>>

\* ------------------------------------------------------------ workers
\* semaphore <- struct{}{} can proceed: the channel's buffer has room.
SemCanSendOffByOne == semaphore <= Threads
SemCanSendZeroUnbounded == Threads = 0 \/ semaphore < Threads
SemCanSend == semaphore < Threads

\* The goroutine body up to the call of downloadFile: acquire a slot, then look
\* at ctx; a cancelled worker returns at once and its deferred calls give the
\* slot back.
AcquireTakesLock(i) ==
    /\ wpc[i] = "wait"
    /\ SemCanSend
    /\ IF ctxDone
       THEN /\ semaphore' = semaphore
            /\ wpc' = [wpc EXCEPT ![i] = "idle"]
            /\ attempts' = attempts
            /\ mu' = mu
       ELSE /\ mu = NoName
            /\ mu' = i
            /\ semaphore' = semaphore + 1
            /\ wpc' = [wpc EXCEPT ![i] = "fetch"]
            /\ attempts' = [attempts EXCEPT ![i] = @ + 1]
    /\ UNCHANGED <<cfgVars, fsVars, segmentFiles, failedSegments, stillFailedSegments,
                   retryCount, nfail, served, rounds, slept, mergeStarted, envFault,
                   vanished, pc, ctxDone, vi, mi, bufferedWriter, result, errSeg>>
Acquire(i) ==
    /\ wpc[i] = "wait"
    /\ SemCanSend
    /\ IF ctxDone
       THEN /\ semaphore' = semaphore
            /\ wpc' = [wpc EXCEPT ![i] = "idle"]
            /\ attempts' = attempts
       ELSE /\ semaphore' = semaphore + 1
            /\ wpc' = [wpc EXCEPT ![i] = "fetch"]
            /\ attempts' = [attempts EXCEPT ![i] = @ + 1]
    /\ UNCHANGED <<cfgVars, fsVars, mu, segmentFiles, failedSegments, stillFailedSegments,
                   retryCount, nfail, served, rounds, slept, mergeStarted, envFault,
                   vanished, pc, ctxDone, vi, mi, bufferedWriter, result, errSeg>>

WorkerUnchanged ==
    UNCHANGED <<cfgVars, outputFile, outputTmp, schedVars, attempts, rounds, slept,
                mergeStarted, envFault, vanished, pc, ctxDone, vi, mi, bufferedWriter,
                result, errSeg>>

\* os.Remove(tempFileName) on downloadFile's error paths.
RemoveTempForgotten(i) == segTmp
RemoveTemp(i) == [segTmp EXCEPT ![i] = NoFile]

\* downloadFile returns err: the worker's position and the count of failed fetches.
ReturnErr(i) ==
    /\ wpc' = [wpc EXCEPT ![i] = "retErr"]
    /\ nfail' = [nfail EXCEPT ![i] = @ + 1]

\* downloadFile up to os.Create(fileName + ".tmp"): client.Do fails (timeout
\* included), the status is not 200, or the temporary file cannot be created.
RequestCreatesFinalName(i) ==
    /\ wpc[i] = "fetch"
    /\ served' = [served EXCEPT ![i] = "none"]
    /\ \/ /\ ReturnErr(i)
          /\ UNCHANGED <<segTmp, segFile>>
       \/ /\ wpc' = [wpc EXCEPT ![i] = "copy"]
          /\ segTmp' = [segTmp EXCEPT ![i] = File(<<>>)]
          /\ segFile' = [segFile EXCEPT ![i] = File(<<>>)]
          /\ nfail' = nfail
    /\ WorkerUnchanged
Request(i) ==
    /\ wpc[i] = "fetch"
    /\ served' = [served EXCEPT ![i] = "none"]
    /\ \/ /\ ReturnErr(i)
          /\ segTmp' = segTmp
       \/ /\ wpc' = [wpc EXCEPT ![i] = "copy"]
          /\ segTmp' = [segTmp EXCEPT ![i] = File(<<>>)]
          /\ nfail' = nfail
    /\ segFile' = segFile
    /\ WorkerUnchanged

\* downloadFile, io.Copy: the body the server sends reaches the temporary
\* file, or the copy fails and the temporary file is removed.
CopyBody(i) ==
    /\ wpc[i] = "copy"
    /\ \/ /\ ReturnErr(i)
          /\ segTmp' = RemoveTemp(i)
          /\ served' = served
       \/ \E kind \in BodiesOf(i) :
            /\ segTmp' = [segTmp EXCEPT ![i] = File(@.data \o Body(kind, i))]
            /\ served' = [served EXCEPT ![i] = kind]
            /\ wpc' = [wpc EXCEPT ![i] = "copied"]
            /\ nfail' = nfail
    /\ segFile' = segFile
    /\ WorkerUnchanged

\* Where downloadFile installs the body: the final filename.
RenameTarget(i) == i

\* downloadFile after the copy: Flush, Close, and os.Rename to the final name.
FlushAndRename(i) ==
    /\ wpc[i] = "copied"
    /\ \/ /\ ReturnErr(i)
          /\ segTmp' = RemoveTemp(i)
          /\ segFile' = segFile
       \/ /\ wpc' = [wpc EXCEPT ![i] = "retOk"]
          /\ segFile' = [segFile EXCEPT ![RenameTarget(i)] = segTmp[i]]
          /\ segTmp' = [segTmp EXCEPT ![i] = NoFile]
          /\ nfail' = nfail
    /\ served' = served
    /\ WorkerUnchanged

\* mu.Lock()
Lock(i) ==
    /\ wpc[i] \in {"retOk", "retErr"}
    /\ mu = NoName
    /\ mu' = i
    /\ wpc' = [wpc EXCEPT ![i] = IF @ = "retOk" THEN "lockOk" ELSE "lockErr"]
    /\ UNCHANGED <<cfgVars, fsVars, semaphore, segmentFiles, failedSegments,
                   stillFailedSegments, retryCount, histVars, pc, ctxDone, vi, mi,
                   bufferedWriter, result, errSeg>>

\* The bookkeeping under the mutex, mu.Unlock(), and the deferred calls:
\* <-semaphore, then Done() on the wait group.
RecordEmptyAsFailure(i) ==
    /\ wpc[i] \in {"lockOk", "lockErr"}
    /\ mu = i
    /\ IF wpc[i] = "lockOk" /\ Size(segFile[i].data) > 0
       THEN /\ segmentFiles' = [segmentFiles EXCEPT ![i] = i]
            /\ UNCHANGED <<failedSegments, stillFailedSegments>>
       ELSE /\ segmentFiles' = segmentFiles
            /\ IF pc = "initWait"
               THEN /\ failedSegments' = AppendOrdinal(failedSegments, i)
                    /\ stillFailedSegments' = stillFailedSegments
               ELSE /\ stillFailedSegments' = AppendOrdinal(stillFailedSegments, i)
                    /\ failedSegments' = failedSegments
    /\ mu' = NoName
    /\ semaphore' = semaphore - 1
    /\ wpc' = [wpc EXCEPT ![i] = "idle"]
    /\ UNCHANGED <<cfgVars, fsVars, retryCount, histVars, pc, ctxDone, vi, mi,
                   bufferedWriter, result, errSeg>>
RecordKeepsSlot(i) ==
    /\ wpc[i] \in {"lockOk", "lockErr"}
    /\ mu = i
    /\ IF wpc[i] = "lockOk"
       THEN /\ segmentFiles' = [segmentFiles EXCEPT ![i] = i]
            /\ UNCHANGED <<failedSegments, stillFailedSegments>>
       ELSE /\ segmentFiles' = segmentFiles
            /\ IF pc = "initWait"
               THEN /\ failedSegments' = AppendOrdinal(failedSegments, i)
                    /\ stillFailedSegments' = stillFailedSegments
               ELSE /\ stillFailedSegments' = AppendOrdinal(stillFailedSegments, i)
                    /\ failedSegments' = failedSegments
    /\ mu' = NoName
    /\ semaphore' = semaphore
    /\ wpc' = [wpc EXCEPT ![i] = "idle"]
    /\ UNCHANGED <<cfgVars, fsVars, retryCount, histVars, pc, ctxDone, vi, mi,
                   bufferedWriter, result, errSeg>>
RecordRetryFailureInOldList(i) ==
    /\ wpc[i] \in {"lockOk", "lockErr"}
    /\ mu = i
    /\ IF wpc[i] = "lockOk"
       THEN /\ segmentFiles' = [segmentFiles EXCEPT ![i] = i]
            /\ UNCHANGED <<failedSegments, stillFailedSegments>>
       ELSE /\ segmentFiles' = segmentFiles
            /\ failedSegments' = AppendOrdinal(failedSegments, i)
            /\ stillFailedSegments' = stillFailedSegments
    /\ mu' = NoName
    /\ semaphore' = semaphore - 1
    /\ wpc' = [wpc EXCEPT ![i] = "idle"]
    /\ UNCHANGED <<cfgVars, fsVars, retryCount, histVars, pc, ctxDone, vi, mi,
                   bufferedWriter, result, errSeg>>
Record(i) ==
    /\ wpc[i] \in {"lockOk", "lockErr"}
    /\ mu = i
    /\ IF wpc[i] = "lockOk"
       THEN /\ segmentFiles' = [segmentFiles EXCEPT ![i] = i]
            /\ UNCHANGED <<failedSegments, stillFailedSegments>>
       ELSE /\ segmentFiles' = segmentFiles
            /\ IF pc = "initWait"
               THEN /\ failedSegments' = AppendOrdinal(failedSegments, i)
                    /\ stillFailedSegments' = stillFailedSegments
               ELSE /\ stillFailedSegments' = AppendOrdinal(stillFailedSegments, i)
                    /\ failedSegments' = failedSegments
    /\ mu' = NoName
    /\ semaphore' = semaphore - 1
    /\ wpc' = [wpc EXCEPT ![i] = "idle"]
    /\ UNCHANGED <<cfgVars, fsVars, retryCount, histVars, pc, ctxDone, vi, mi,
                   bufferedWriter, result, errSeg>>

\* ------------------------------------------- downloadSegments, main flow
MainUnchanged ==
    UNCHANGED <<cfgVars, fsVars, semaphore, mu, segmentFiles, attempts, nfail, served,
                mergeStarted, envFault, vanished, ctxDone, vi, mi, bufferedWriter,
                result, errSeg>>

\* The first loop: one goroutine per segment.
LaunchInitial ==
    /\ pc = "initial"
    /\ wpc' = [i \in Ord |-> "wait"]
    /\ pc' = "initWait"
    /\ UNCHANGED <<failedSegments, stillFailedSegments, retryCount, rounds, slept>>
    /\ MainUnchanged

\* wg.Wait() returns; the retry loop starts with retryCount := 1.
WaitInitialNoBarrier ==
    /\ pc = "initWait"
    /\ retryCount' = 1
    /\ pc' = "retryLoop"
    /\ UNCHANGED <<wpc, failedSegments, stillFailedSegments, rounds, slept>>
    /\ MainUnchanged
WaitInitial ==
    /\ pc = "initWait"
    /\ \A i \in Ord : wpc[i] = "idle"
    /\ retryCount' = 1
    /\ pc' = "retryLoop"
    /\ UNCHANGED <<wpc, failedSegments, stillFailedSegments, rounds, slept>>
    /\ MainUnchanged

\* The condition under which the retry loop runs one more round.
RetryCondOneMore == retryCount <= MaxRetry + 1 /\ LenOf(failedSegments) # 0
RetryCond == retryCount <= MaxRetry /\ LenOf(failedSegments) # 0

RetryLoop ==
    /\ pc = "retryLoop"
    /\ pc' = IF RetryCond THEN "backoff" ELSE "verify"
    /\ UNCHANGED <<wpc, failedSegments, stillFailedSegments, retryCount, rounds, slept>>
    /\ MainUnchanged

\* time.Sleep(retryCount * time.Second), in seconds.
BackoffTimeFixed == IF retryCount = 0 THEN 0 ELSE 1
BackoffTime == retryCount

Backoff ==
    /\ pc = "backoff"
    /\ slept' = slept + BackoffTime
    /\ pc' = "launchRetry"
    /\ UNCHANGED <<wpc, failedSegments, stillFailedSegments, retryCount, rounds>>
    /\ MainUnchanged

\* The ordinals a retry round launches a goroutine for.
RetryTargetsSkipFirst == Members(failedSegments) \ {0}
RetryTargets == Members(failedSegments)

LaunchRetryKeepsStillFailed ==
    /\ pc = "launchRetry"
    /\ stillFailedSegments' = stillFailedSegments
    /\ wpc' = [i \in Ord |-> IF i \in RetryTargets THEN "wait" ELSE wpc[i]]
    /\ rounds' = rounds + 1
    /\ pc' = "retryWait"
    /\ UNCHANGED <<failedSegments, retryCount, slept>>
    /\ MainUnchanged
LaunchRetry ==
    /\ pc = "launchRetry"
    /\ stillFailedSegments' = NoOrdinals
    /\ wpc' = [i \in Ord |-> IF i \in RetryTargets THEN "wait" ELSE wpc[i]]
    /\ rounds' = rounds + 1
    /\ pc' = "retryWait"
    /\ UNCHANGED <<failedSegments, retryCount, slept>>
    /\ MainUnchanged

\* retryWg.Wait() returns; failedSegments = stillFailedSegments; retryCount++.
WaitRetryKeepsFailed ==
    /\ pc = "retryWait"
    /\ \A i \in Ord : wpc[i] = "idle"
    /\ failedSegments' = failedSegments
    /\ retryCount' = retryCount + 1
    /\ pc' = "retryLoop"
    /\ UNCHANGED <<wpc, stillFailedSegments, rounds, slept>>
    /\ MainUnchanged
WaitRetry ==
    /\ pc = "retryWait"
    /\ \A i \in Ord : wpc[i] = "idle"
    /\ failedSegments' = stillFailedSegments
    /\ retryCount' = retryCount + 1
    /\ pc' = "retryLoop"
    /\ UNCHANGED <<wpc, stillFailedSegments, rounds, slept>>
    /\ MainUnchanged

\* ------------------------------------------- downloadSegments, verification
SeqVars == <<Threads, MaxRetry, ValidateFiles, segments, leftover, outputOrig,
             auxVars, segTmp, schedVars, wpc, attempts, nfail, served, rounds, slept>>

\* return nil, err from downloadSegments and the error return of Download;
\* the deferred cancel() raises the cancellation signal.
AbortNamesIndex(kind, ordinal) ==
    /\ result' = kind
    /\ errSeg' = ordinal - 1
    /\ ctxDone' = TRUE
    /\ pc' = "done"
Abort(kind, ordinal) ==
    /\ result' = kind
    /\ errSeg' = ordinal
    /\ ctxDone' = TRUE
    /\ pc' = "done"

\* The error of the verification loop for slot vi, "" when the slot passes
\* the checks made before the validator: the empty name, os.Stat, the size.
SlotErrorNoEmptyCheck ==
    IF ~FileAt(segmentFiles[vi]).exists THEN "access"
    ELSE IF Size(FileAt(segmentFiles[vi]).data) = 0 THEN "empty"
    ELSE ""
SlotError ==
    IF segmentFiles[vi] = NoName THEN "missing"
    ELSE IF ~FileAt(segmentFiles[vi]).exists THEN "access"
    ELSE IF Size(FileAt(segmentFiles[vi]).data) = 0 THEN "empty"
    ELSE ""

\* One iteration of the verification loop up to the validator; past the
\* last slot downloadSegments returns segmentFiles and Download goes on to merge.
VerifySlotAlwaysValidates ==
    /\ pc = "verify"
    /\ IF vi = segments
       THEN /\ pc' = "mergeCreate"
            /\ ctxDone' = TRUE
            /\ UNCHANGED <<vi, result, errSeg>>
       ELSE IF SlotError # ""
       THEN /\ Abort(SlotError, vi + 1)
            /\ vi' = vi
       ELSE /\ pc' = "validate"
            /\ vi' = vi
            /\ UNCHANGED <<ctxDone, result, errSeg>>
    /\ UNCHANGED <<SeqVars, segFile, outputFile, outputTmp, mergeStarted, envFault, vanished,
                   mi, bufferedWriter>>
VerifySlot ==
    /\ pc = "verify"
    /\ IF vi = segments
       THEN /\ pc' = "mergeCreate"
            /\ ctxDone' = TRUE
            /\ UNCHANGED <<vi, result, errSeg>>
       ELSE IF SlotError # ""
       THEN /\ Abort(SlotError, vi + 1)
            /\ vi' = vi
       ELSE /\ pc' = IF ValidateFiles THEN "validate" ELSE "verify"
            /\ vi' = IF ValidateFiles THEN vi ELSE vi + 1
            /\ UNCHANGED <<ctxDone, result, errSeg>>
    /\ UNCHANGED <<SeqVars, segFile, outputFile, outputTmp, mergeStarted, envFault, vanished,
                   mi, bufferedWriter>>

\* validator.ValidateTS(file) for slot vi.
VerifyValidate ==
    /\ pc = "validate"
    /\ IF ValidateTS(FileAt(segmentFiles[vi])) # "ok"
       THEN /\ Abort("invalid", vi + 1)
            /\ vi' = vi
       ELSE /\ pc' = "verify"
            /\ vi' = vi + 1
            /\ UNCHANGED <<ctxDone, result, errSeg>>
    /\ UNCHANGED <<SeqVars, segFile, outputFile, outputTmp, mergeStarted, envFault,
                   vanished, mi, bufferedWriter>>

\* ------------------------------------------------------- mergeSegments
MergeUnchanged == UNCHANGED <<SeqVars, segFile, ctxDone, vi, vanished>>

\* An error return of mergeSegments after the temporary output was created:
\* os.Remove(tempOutputFile), and Download returns the error.
MergeFailKeepsTemp(kind) ==
    /\ outputTmp' = outputTmp
    /\ result' = kind
    /\ errSeg' = mi + 1
    /\ pc' = "done"
MergeFail(kind) ==
    /\ outputTmp' = NoFile
    /\ result' = kind
    /\ errSeg' = mi + 1
    /\ pc' = "done"

\* os.Create(tempOutputFile)
MergeCreateKeepsOutput ==
    /\ pc = "mergeCreate"
    /\ mergeStarted' = TRUE
    /\ \/ /\ envFault' = TRUE
          /\ result' = "merge"
          /\ pc' = "done"
          /\ UNCHANGED <<outputTmp, mi, bufferedWriter, errSeg>>
       \/ /\ outputTmp' = File(outputFile.data)
          /\ bufferedWriter' = <<>>
          /\ mi' = 0
          /\ pc' = "mergeStat"
          /\ UNCHANGED <<result, errSeg, envFault>>
    /\ outputFile' = outputFile
    /\ MergeUnchanged
MergeCreate ==
    /\ pc = "mergeCreate"
    /\ mergeStarted' = TRUE
    /\ \/ /\ envFault' = TRUE
          /\ result' = "merge"
          /\ pc' = "done"
          /\ UNCHANGED <<outputTmp, mi, bufferedWriter, errSeg>>
       \/ /\ outputTmp' = File(<<>>)
          /\ bufferedWriter' = <<>>
          /\ mi' = 0
          /\ pc' = "mergeStat"
          /\ UNCHANGED <<result, errSeg, envFault>>
    /\ outputFile' = outputFile
    /\ MergeUnchanged

\* The file the merge loop is at.
MergeInputReversed == FileAt(segmentFiles[segments - 1 - mi])
MergeInput == FileAt(segmentFiles[mi])

\* The head of the merge loop and os.Stat(file).
MergeStatIgnoresMissing ==
    /\ pc = "mergeStat"
    /\ pc' = IF mi = segments THEN "mergeFinal" ELSE "mergeOpen"
    /\ UNCHANGED <<outputTmp, result, errSeg>>
    /\ UNCHANGED <<outputFile, mi, bufferedWriter, mergeStarted, envFault>>
    /\ MergeUnchanged
MergeStat ==
    /\ pc = "mergeStat"
    /\ IF mi = segments
       THEN /\ pc' = "mergeFinal"
            /\ UNCHANGED <<outputTmp, result, errSeg>>
       ELSE IF ~MergeInput.exists
       THEN MergeFail("mergeMissing")
       ELSE /\ pc' = "mergeOpen"
            /\ UNCHANGED <<outputTmp, result, errSeg>>
    /\ UNCHANGED <<outputFile, mi, bufferedWriter, mergeStarted, envFault>>
    /\ MergeUnchanged

\* os.Open(file) and the read loop: the file's bytes go to the buffered writer.
MergeCopy ==
    /\ pc = "mergeOpen"
    /\ \/ /\ MergeInput.exists
          /\ bufferedWriter' = bufferedWriter \o MergeInput.data
          /\ pc' = "mergeFlush"
          /\ UNCHANGED <<outputTmp, result, errSeg, envFault>>
       \/ /\ MergeFail("merge")
          /\ envFault' = TRUE
          /\ bufferedWriter' = bufferedWriter
    /\ UNCHANGED <<outputFile, mi, mergeStarted>>
    /\ MergeUnchanged

\* bufferedWriter.Flush() after each input.
MergeFlushToOutput ==
    /\ pc = "mergeFlush"
    /\ \/ /\ outputTmp' = File(outputTmp.data \o bufferedWriter)
          /\ outputFile' = File(outputTmp.data \o bufferedWriter)
          /\ bufferedWriter' = <<>>
          /\ mi' = mi + 1
          /\ pc' = "mergeStat"
          /\ UNCHANGED <<result, errSeg, envFault>>
       \/ /\ MergeFail("merge")
          /\ envFault' = TRUE
          /\ UNCHANGED <<bufferedWriter, mi, outputFile>>
    /\ UNCHANGED <<mergeStarted>>
    /\ MergeUnchanged
MergeFlush ==
    /\ pc = "mergeFlush"
    /\ \/ /\ outputTmp' = File(outputTmp.data \o bufferedWriter)
          /\ bufferedWriter' = <<>>
          /\ mi' = mi + 1
          /\ pc' = "mergeStat"
          /\ UNCHANGED <<result, errSeg, envFault>>
       \/ /\ MergeFail("merge")
          /\ envFault' = TRUE
          /\ UNCHANGED <<bufferedWriter, mi>>
    /\ UNCHANGED <<outputFile, mergeStarted>>
    /\ MergeUnchanged

\* The last Flush and out.Close().
MergeFinal ==
    /\ pc = "mergeFinal"
    /\ \/ /\ outputTmp' = File(outputTmp.data \o bufferedWriter)
          /\ bufferedWriter' = <<>>
          /\ pc' = "mergeReplace"
          /\ UNCHANGED <<result, errSeg, envFault>>
       \/ /\ MergeFail("merge")
          /\ envFault' = TRUE
          /\ bufferedWriter' = bufferedWriter
    /\ UNCHANGED <<outputFile, mi, mergeStarted>>
    /\ MergeUnchanged

\* os.Stat(d.config.Output) and, when it finds a file, os.Remove of it.
MergeReplaceSkipsRemove ==
    /\ pc = "mergeReplace"
    /\ pc' = "mergeRename"
    /\ UNCHANGED <<outputFile, outputTmp, result, errSeg, envFault>>
    /\ UNCHANGED <<mi, bufferedWriter, mergeStarted>>
    /\ MergeUnchanged
MergeReplace ==
    /\ pc = "mergeReplace"
    /\ \/ /\ outputFile.exists
          /\ outputFile' = NoFile
          /\ pc' = "mergeRename"
          /\ UNCHANGED <<outputTmp, result, errSeg, envFault>>
       \/ /\ outputFile.exists
          /\ MergeFail("mergeRemove")
          /\ envFault' = TRUE
          /\ outputFile' = outputFile
       \/ /\ ~outputFile.exists
          /\ pc' = "mergeRename"
          /\ UNCHANGED <<outputFile, outputTmp, result, errSeg, envFault>>
    /\ UNCHANGED <<mi, bufferedWriter, mergeStarted>>
    /\ MergeUnchanged

\* os.Rename(tempOutputFile, d.config.Output)
MergeRenameKeepsTemp ==
    /\ pc = "mergeRename"
    /\ \/ /\ outputFile' = outputTmp
          /\ outputTmp' = NoFile
          /\ pc' = "cleanup"
          /\ UNCHANGED <<result, errSeg, envFault>>
       \/ /\ MergeFailKeepsTemp("mergeRename")
          /\ envFault' = TRUE
          /\ outputFile' = outputFile
    /\ UNCHANGED <<mi, bufferedWriter, mergeStarted>>
    /\ MergeUnchanged
MergeRename ==
    /\ pc = "mergeRename"
    /\ \/ /\ outputFile' = outputTmp
          /\ outputTmp' = NoFile
          /\ pc' = "cleanup"
          /\ UNCHANGED <<result, errSeg, envFault>>
       \/ /\ MergeFail("mergeRename")
          /\ envFault' = TRUE
          /\ outputFile' = outputFile
    /\ UNCHANGED <<mi, bufferedWriter, mergeStarted>>
    /\ MergeUnchanged

\* Download after the merge: os.Remove of every segment file, then
\* os.RemoveAll(d.config.OutputDir), which takes along whatever else lies in
\* the staging directory.
Cleanup ==
    /\ pc = "cleanup"
    /\ segFile' = [i \in Ord |-> NoFile]
    /\ segTmp' = [i \in Ord |-> NoFile]
    /\ outputFile' = IF outputInStaging THEN NoFile ELSE outputFile
    /\ stagingDir' = FALSE
    /\ result' = "ok"
    /\ pc' = "done"
    /\ UNCHANGED <<Threads, MaxRetry, ValidateFiles, segments, leftover,
                   outputOrig, outputTmp, schedVars, wpc, histVars, ctxDone,
                   vi, mi, bufferedWriter, errSeg, playlistVars, outputInStaging,
                   badOrd, mergeRuns, firstOutput>>

\* ------------------------------------------------------- environment
\* A segment file is deleted by someone else while the run verifies or merges
\* (once in a run).
EnvRemove(i) ==
    /\ pc \in {"verify", "validate", "mergeCreate", "mergeStat", "mergeOpen", "mergeFlush"}
    /\ ~vanished
    /\ segFile[i].exists
    /\ segFile' = [segFile EXCEPT ![i] = NoFile]
    /\ vanished' = TRUE
    /\ UNCHANGED <<SeqVars, outputFile, outputTmp, mergeStarted, envFault, pc, ctxDone, vi,
                   mi, bufferedWriter, result, errSeg>>

Next ==
    \/ LaunchInitial
    \/ WaitInitial
    \/ RetryLoop
    \/ Backoff
    \/ LaunchRetry
    \/ WaitRetry
    \/ \E i \in Ord : Acquire(i)
    \/ \E i \in Ord : Request(i)
    \/ \E i \in Ord : CopyBody(i)
    \/ \E i \in Ord : FlushAndRename(i)
    \/ \E i \in Ord : Lock(i)
    \/ \E i \in Ord : Record(i)
    \/ VerifySlot
    \/ VerifyValidate
    \/ MergeCreate
    \/ MergeStat
    \/ MergeCopy
    \/ MergeFlush
    \/ MergeFinal
    \/ MergeReplace
    \/ MergeRename
    \/ Cleanup
    \/ \E i \in Ord : EnvRemove(i)

Spec == Init /\ [][Next]_vars

\* ------------------------------------------------ mergeSegments, twice
\* The state at the call of mergeSegments: every slot holds the name of a
\* verified file.
InitMerge ==
    /\ segments \in 1..MaxSeg
    /\ Threads \in 1..MaxThreads
    /\ MaxRetry \in 0..MaxRetryBound
    /\ ValidateFiles \in BOOLEAN
    /\ leftover = {}
    /\ outputOrig \in {NoFile, File(OldOutput)}
    /\ segFile = [i \in 0..(segments - 1) |-> File(Body("ts", i))]
    /\ segTmp = [i \in 0..(segments - 1) |-> NoFile]
    /\ outputFile = outputOrig
    /\ outputTmp = NoFile
    /\ pc = "mergeCreate"
    /\ wpc = [i \in 0..(segments - 1) |-> "idle"]
    /\ semaphore = 0
    /\ mu = NoName
    /\ ctxDone = TRUE
    /\ segmentFiles = [i \in 0..(segments - 1) |-> i]
    /\ failedSegments = [i \in 0..(segments - 1) |-> 0]
    /\ stillFailedSegments = [i \in 0..(segments - 1) |-> 0]
    /\ retryCount = 1
    /\ vi = segments
    /\ mi = 0
    /\ bufferedWriter = <<>>
    /\ result = "running"
    /\ errSeg = 0
    /\ attempts = [i \in 0..(segments - 1) |-> 1]
    /\ nfail = [i \in 0..(segments - 1) |-> 0]
    /\ served = [i \in 0..(segments - 1) |-> "ts"]
    /\ rounds = 0
    /\ slept = 0
    /\ mergeStarted = FALSE
    /\ envFault = FALSE
    /\ vanished = FALSE
    /\ site = "media"
    /\ mediaLen = segments
    /\ url = TopURL
    /\ baseURL = GetBaseURL(TopURL)
    /\ playlistContent = MediaPlaylist(segments)
    /\ segmentURLs = ParseSegments(MediaPlaylist(segments), GetBaseURL(TopURL))
    /\ fetches = 1
    /\ outputInStaging = FALSE
    /\ stagingDir = TRUE
    /\ badOrd = 0
    /\ mergeRuns = 0
    /\ firstOutput = NoFile

\* mergeSegments has returned nil and is called once more with the same
\* list of files.
RerunMerge ==
    /\ pc = "cleanup"
    /\ mergeRuns = 0
    /\ mergeRuns' = 1
    /\ firstOutput' = outputFile
    /\ pc' = "mergeCreate"
    /\ UNCHANGED <<Threads, MaxRetry, ValidateFiles, segments, leftover, outputOrig,
                   playlistVars, outputInStaging, stagingDir, badOrd, fsVars, schedVars,
                   histVars, wpc, ctxDone, vi, mi, bufferedWriter, result, errSeg>>

NextMerge ==
    \/ MergeCreate
    \/ MergeStat
    \/ MergeCopy
    \/ MergeFlush
    \/ MergeFinal
    \/ MergeReplace
    \/ MergeRename
    \/ RerunMerge

SpecMerge == InitMerge /\ [][NextMerge]_vars

\* ------------------------------------------------- ValidateTS, any file
\* Files of up to MaxBlocks runs of bytes: each run is a packet or a part of
\* one and starts with the sync byte or with another byte.
BlockLens == {88, 100, PacketSize}
Blocks == {Blk(h, l, 0, 1) : h \in {0, SyncByte}, l \in BlockLens}
Files == UNION {[1..k -> Blocks] : k \in 0..MaxBlocks}

\* The state when the verification loop comes to a slot whose file holds
\* whatever the server sent.
InitValidate ==
    /\ segments = 1
    /\ Threads = 1
    /\ MaxRetry = 0
    /\ ValidateFiles = TRUE
    /\ leftover = {}
    /\ outputOrig = NoFile
    /\ \E d \in Files : segFile = [i \in 0..0 |-> File(d)]
    /\ segTmp = [i \in 0..0 |-> NoFile]
    /\ outputFile = NoFile
    /\ outputTmp = NoFile
    /\ pc = "verify"
    /\ wpc = [i \in 0..0 |-> "idle"]
    /\ semaphore = 0
    /\ mu = NoName
    /\ ctxDone = FALSE
    /\ segmentFiles = [i \in 0..0 |-> 0]
    /\ failedSegments = [i \in 0..0 |-> 0]
    /\ stillFailedSegments = [i \in 0..0 |-> 0]
    /\ retryCount = 1
    /\ vi = 0
    /\ mi = 0
    /\ bufferedWriter = <<>>
    /\ result = "running"
    /\ errSeg = 0
    /\ attempts = [i \in 0..0 |-> 1]
    /\ nfail = [i \in 0..0 |-> 0]
    /\ served = [i \in 0..0 |-> "none"]
    /\ rounds = 0
    /\ slept = 0
    /\ mergeStarted = FALSE
    /\ envFault = FALSE
    /\ vanished = FALSE
    /\ site = "media"
    /\ mediaLen = 1
    /\ url = TopURL
    /\ baseURL = GetBaseURL(TopURL)
    /\ playlistContent = MediaPlaylist(1)
    /\ segmentURLs = ParseSegments(MediaPlaylist(1), GetBaseURL(TopURL))
    /\ fetches = 1
    /\ outputInStaging = FALSE
    /\ stagingDir = TRUE
    /\ badOrd = 0
    /\ mergeRuns = 0
    /\ firstOutput = NoFile

NextValidate ==
    \/ VerifySlot
    \/ VerifyValidate

SpecValidate == InitValidate /\ [][NextValidate]_vars

\* Download from its first line on.
NextDownload ==
    \/ FetchPlaylist
    \/ ResolveMaster
    \/ FetchVariant
    \/ ParsePlaylist
    \/ Next

SpecDownload == InitDownload /\ [][NextDownload]_vars

\* ------------------------------------------------ fair scheduling
\* The Go scheduler runs every goroutine that can take a step: the steps of
\* worker i, and the steps of the goroutine that called downloadSegments, up
\* to its return.  A client.Do bounded by the request timeout, a copy, a
\* flush and a rename are steps that end.
Worker(i) ==
    /\ i \in Ord
    /\ \/ Acquire(i)
       \/ Request(i)
       \/ CopyBody(i)
       \/ FlushAndRename(i)
       \/ Lock(i)
       \/ Record(i)
Orchestrator ==
    \/ LaunchInitial
    \/ WaitInitial
    \/ RetryLoop
    \/ Backoff
    \/ LaunchRetry
    \/ WaitRetry
    \/ VerifySlot
    \/ VerifyValidate
Fairness ==
    /\ WF_vars(Orchestrator)
    /\ \A i \in 0..(MaxSeg - 1) : WF_vars(Worker(i))

\* downloadSegments alone, from its entry to its return, in a fresh staging
\* directory.
InitFair ==
    /\ Init
    /\ leftover = {}
    /\ outputOrig = NoFile

NextFair ==
    \/ Orchestrator
    \/ \E i \in Ord : Worker(i)

SpecFair == InitFair /\ [][NextFair]_vars /\ Fairness

\* =============================================================== claims
\* A worker is inside a fetch from the call of downloadFile to its return.
InFetch(i) == wpc[i] \in {"fetch", "copy", "copied"}
InFlight == {i \in Ord : InFetch(i)}

\* The positions of the control flow after the retry loop.
PostRetry == {"verify", "validate", "mergeCreate", "mergeStat", "mergeOpen", "mergeFlush",
              "mergeFinal", "mergeReplace", "mergeRename", "cleanup", "done"}

\* C1: in every reachable state, initial pass and retry rounds alike, the
\* number of workers inside downloadFile is at most Threads.
C1_ConcurrencyCap == Cardinality(InFlight) <= Threads

\* C1 witness: in a retry round the cap is reached and another worker waits
\* for a slot.
C1_Witness ==
    /\ pc = "retryWait"
    /\ Threads >= 1
    /\ Cardinality(InFlight) = Threads
    /\ \E i \in Ord : wpc[i] = "wait"

\* C5: at most MaxRetry retry rounds run and no ordinal is fetched more
\* than 1 + MaxRetry times; a round runs only with a non-empty failure set;
\* after the retry loop no worker is active, so an ordinal whose slot is
\* still empty is not attempted again.
C5_RetryCeiling ==
    /\ rounds <= MaxRetry
    /\ \A i \in Ord : attempts[i] <= 1 + MaxRetry
    /\ pc \in {"backoff", "launchRetry", "retryWait"} => LenOf(failedSegments) # 0
    /\ pc \in PostRetry => \A i \in Ord : wpc[i] = "idle"

\* C5 witness: the rounds are exhausted and an ordinal fetched 1 + MaxRetry
\* times still has an empty slot.
C5_Witness ==
    /\ pc = "verify"
    /\ MaxRetry >= 2
    /\ rounds = MaxRetry
    /\ \E i \in Ord : segmentFiles[i] = NoName /\ attempts[i] = 1 + MaxRetry

\* Ordinal i's fetch failed on the initial attempt and in every retry round.
Exhausted(i) == nfail[i] = 1 + MaxRetry

\* The lowest ordinal whose result slot is empty (segments when none is).
FirstEmpty ==
    IF \E i \in Ord : segmentFiles[i] = NoName
    THEN CHOOSE i \in Ord : /\ segmentFiles[i] = NoName
                            /\ \A j \in Ord : segmentFiles[j] = NoName => i <= j
    ELSE segments

\* The errors of the verification loop for a filled slot.
SlotCheckErrors == {"access", "empty", "invalid"}

\* C2 as stated: when some fetch failed on every attempt the run ends with
\* the missing-segment error, without a merge and with the output untouched.
C2_Original ==
    (pc = "done" /\ \E i \in Ord : Exhausted(i)) =>
        /\ result = "missing"
        /\ ~mergeStarted
        /\ outputFile = outputOrig

\* C2 as amended: when some fetch failed on every attempt the merge never
\* starts and the output path keeps what it held; the run ends with an error
\* of the verification loop, which is the missing-segment error for the
\* first empty slot unless the file of a lower, filled slot fails its own
\* check (inaccessible, empty, rejected) and is reported first.
C2_Amended ==
    (\E i \in Ord : Exhausted(i)) =>
        /\ ~mergeStarted
        /\ outputFile = outputOrig
        /\ pc = "done" =>
             \/ result = "missing" /\ errSeg = FirstEmpty + 1
             \/ result \in SlotCheckErrors /\ errSeg < FirstEmpty + 1

\* C2 witness: a run with retries and an earlier output ended with the
\* missing-segment error.
C2_Witness ==
    /\ pc = "done"
    /\ MaxRetry >= 1
    /\ \E i \in Ord : Exhausted(i)
    /\ result = "missing"
    /\ outputOrig.exists
    /\ outputFile = outputOrig

\* The bodies the successful fetches received, in ordinal order.
ServedBodies == [k \in 1..segments |-> Body(served[k - 1], k - 1)]

\* The body ordinal i's successful fetch received passes the verification.
GoodBody(i) ==
    /\ served[i] \notin {"none", "empty"}
    /\ ValidateFiles => ValidateTS(File(Body(served[i], i))) = "ok"

\* C3: when every ordinal's fetch fails fewer than MaxRetry times before it
\* succeeds (and the bodies are sound and nothing else fails), the run ends
\* with every slot filled and the output merged in ordinal order.
C3_RecoversWithinRetries ==
    ( /\ pc = "done"
      /\ \A i \in Ord : nfail[i] < MaxRetry /\ GoodBody(i)
      /\ ~envFault
      /\ ~vanished ) =>
        /\ result = "ok"
        /\ \A i \in Ord : segmentFiles[i] = i
        /\ outputFile = File(Flatten(ServedBodies))

\* C3 witness: two segments, one of which failed before it succeeded, and
\* the run ended well.
C3_Witness ==
    /\ pc = "done"
    /\ result = "ok"
    /\ segments >= 2
    /\ \E i \in Ord : nfail[i] >= 1
    /\ \A i \in Ord : nfail[i] < MaxRetry

\* C4: after a successful merge the output is the concatenation of the
\* segment files' bytes in ascending ordinal order.
C4_MergeOrder ==
    (pc = "cleanup" \/ result = "ok") => outputFile = File(Flatten(ServedBodies))

\* C4 witness: the merge succeeded for two segments of which the second
\* succeeded in the initial pass and the first only in a retry round.
C4_Witness ==
    /\ pc = "cleanup"
    /\ segments >= 2
    /\ nfail[0] >= 1
    /\ nfail[1] = 0
    /\ \A i \in Ord : FileAt(i) = File(Body(served[i], i))

\* downloadFile has returned an error, or success, to worker i.
FetchFailed(i) == wpc[i] \in {"retErr", "lockErr"}
FetchSucceeded(i) == wpc[i] \in {"retOk", "lockOk"}

\* C6: a file under a segment's final name holds a complete body: the one
\* the ordinal's successful fetch received in this run, or what an earlier
\* run left there; a body still being written is only in the .tmp file.
C6_NoPartialFinalFile ==
    \A i \in Ord : segFile[i].exists =>
        \/ segFile[i] = InitialSeg(i)
        \/ served[i] # "none" /\ segFile[i] = File(Body(served[i], i))

\* C6 witness: one segment is installed complete while another worker's
\* temporary file holds less than the body that is on its way.
C6_Witness ==
    \E i, j \in Ord :
        /\ served[i] = "ts"
        /\ segFile[i] = File(Body("ts", i))
        /\ wpc[j] = "copy"
        /\ segTmp[j] = File(<<>>)
        /\ ~segFile[j].exists

\* C7 as stated: after an error return neither the temporary file nor the
\* destination exists; after a success the destination exists and the
\* temporary file does not.
C7_Original ==
    \A i \in Ord :
        /\ FetchFailed(i) => ~segTmp[i].exists /\ ~segFile[i].exists
        /\ FetchSucceeded(i) => segFile[i].exists /\ ~segTmp[i].exists

\* C7 as amended: after an error return the temporary file does not exist
\* and the destination is what it was before the call (absent, unless an
\* earlier run left a file there); after a success the destination holds
\* the body received and the temporary file does not exist.
C7_Amended ==
    \A i \in Ord :
        /\ FetchFailed(i) => ~segTmp[i].exists /\ segFile[i] = InitialSeg(i)
        /\ FetchSucceeded(i) =>
              /\ segFile[i] = File(Body(served[i], i))
              /\ served[i] # "none"
              /\ ~segTmp[i].exists

\* C7 witness: a fetch failed after its temporary file was created, for a
\* destination an earlier run left behind.
C7_Witness ==
    \E i \in Ord :
        /\ FetchFailed(i)
        /\ served[i] # "none"
        /\ i \in leftover
        /\ segFile[i] = InitialSeg(i)

\* C8: from the start of mergeSegments on, the output path is absent, holds
\* the earlier output unchanged, or holds the complete concatenation.
C8_OutputNeverPartial ==
    mergeStarted => outputFile \in {NoFile, outputOrig, File(Flatten(ServedBodies))}

\* C8 witness: the temporary output holds a part of the concatenation while
\* the output path still holds the earlier output.
C8_Witness ==
    /\ pc = "mergeStat"
    /\ mi >= 1
    /\ mi < segments
    /\ outputTmp.exists
    /\ outputTmp.data # <<>>
    /\ outputOrig.exists
    /\ outputFile = outputOrig

\* C9: when removing the earlier output fails, mergeSegments returns the
\* error, the temporary output is gone and the earlier output is as it was.
C9_RemoveFailureKeepsOutput ==
    result = "mergeRemove" =>
        /\ pc = "done"
        /\ ~outputTmp.exists
        /\ outputOrig.exists
        /\ outputFile = outputOrig

\* C9 witness: the removal of the earlier output failed.
C9_Witness == result = "mergeRemove" /\ mi = segments /\ segments >= 2

\* C10: when the merge loop comes to an input that no longer exists, it
\* returns the missing-segment error, removes the temporary output and
\* leaves the output path as it was, however many inputs were copied.
C10_MissingInputAborts ==
    [][(pc = "mergeStat" /\ mi < segments /\ ~MergeInput.exists /\ pc' # pc) =>
          /\ pc' = "done"
          /\ result' = "mergeMissing"
          /\ errSeg' = mi + 1
          /\ ~outputTmp'.exists
          /\ outputFile' = outputFile
          /\ outputFile = outputOrig]_vars

\* C10 witness: the merge ended with the missing-segment error after it had
\* copied a lower ordinal.
C10_Witness ==
    /\ result = "mergeMissing"
    /\ errSeg >= 2
    /\ outputOrig.exists

\* C11: when mergeSegments has returned nil twice in a row for the same list
\* of files, the output holds the bytes the first run left, which are the
\* concatenation of the files; no temporary output is left by either run.
C11_MergeIdempotent ==
    /\ pc = "cleanup" => ~outputTmp.exists /\ outputFile = File(Flatten(ServedBodies))
    /\ (pc = "cleanup" /\ mergeRuns = 1) => outputFile = firstOutput
    /\ mergeRuns = 1 => firstOutput = File(Flatten(ServedBodies))

\* C11 witness: the second run has returned nil; it found and removed the
\* output of the first.
C11_Witness ==
    /\ pc = "cleanup"
    /\ mergeRuns = 1
    /\ firstOutput.exists
    /\ outputFile = firstOutput
    /\ segments >= 2

\* Download has returned an error.
Failed == pc = "done" /\ result # "ok"

\* C12 as stated: when Download returns an error, no output of the run is at
\* the output path and nothing the run created is left: no segment .tmp
\* file, no segment file in the staging directory, no temporary output.
C12_Original ==
    Failed =>
        /\ outputFile \in {NoFile, outputOrig}
        /\ ~outputTmp.exists
        /\ \A i \in Ord : ~segTmp[i].exists /\ ~segFile[i].exists

\* C12 as amended: when Download returns an error, no output of the run is
\* at the output path (an earlier output is still there unless the final
\* rename failed after its removal) and no .tmp file of the run is left;
\* the segment files already installed and the staging directory stay.
C12_Amended ==
    Failed =>
        /\ outputFile \in {NoFile, outputOrig}
        /\ result # "mergeRename" => outputFile = outputOrig
        /\ ~outputTmp.exists
        /\ \A i \in Ord : ~segTmp[i].exists
        /\ \A i \in Ord : (segmentFiles[i] # NoName /\ ~vanished) => segFile[i].exists
        /\ stagingDir

\* C12 witness: the run ended with the error for a segment that failed every
\* attempt while another segment's file is in the staging directory.
C12_Witness ==
    /\ Failed
    /\ result = "missing"
    /\ \E i \in Ord : segmentFiles[i] = i /\ segFile[i] = File(Body("ts", i))

\* Some result slot is empty (after the retry phase: when the run is over).
SomeSlotEmpty == \E i \in Ord : segmentFiles[i] = NoName

\* C13 as stated: with an empty slot after the retry phase, downloadSegments
\* returns the missing-segment error naming the lowest empty ordinal, and
\* no merge happens.
C13_Original ==
    (pc = "done" /\ SomeSlotEmpty) =>
        /\ result = "missing"
        /\ errSeg = FirstEmpty + 1
        /\ ~mergeStarted

\* C13 as amended: with an empty slot after the retry phase, no merge
\* happens and downloadSegments returns the error of the lowest slot that
\* fails a check: the missing-segment error naming the lowest empty
\* ordinal exactly when every filled slot below it passed, and otherwise
\* the error of a filled slot below it.
C13_Amended ==
    (pc = "done" /\ SomeSlotEmpty) =>
        /\ ~mergeStarted
        /\ result \in {"missing"} \cup SlotCheckErrors
        /\ errSeg = vi + 1
        /\ vi <= FirstEmpty
        /\ result = "missing" <=> vi = FirstEmpty
        /\ \A j \in 0..(vi - 1) : segmentFiles[j] # NoName

\* C13 witness: the lowest empty slot is not the first slot and the error
\* names it.
C13_Witness ==
    /\ pc = "done"
    /\ SomeSlotEmpty
    /\ result = "missing"
    /\ errSeg = FirstEmpty + 1
    /\ FirstEmpty >= 1

\* Ordinal i's fetch succeeded with an empty body and its outcome is recorded.
ZeroByte(i) == served[i] = "empty" /\ wpc[i] = "idle" /\ nfail[i] < attempts[i]

\* C14 as stated: a zero-byte file fills its slot, and the run then ends
\* with the empty-segment error for it, without a merge (no file being
\* removed by anyone else meanwhile).
C14_Original ==
    \A i \in Ord : (ZeroByte(i) /\ ~vanished) =>
        /\ segmentFiles[i] = i
        /\ ~mergeStarted
        /\ pc = "done" => result = "empty" /\ errSeg = i + 1

\* C14 as amended: a successful fetch of an empty body fills the slot and
\* adds nothing to a failure list; no merge is started; the run ends with
\* the empty-segment error for that ordinal unless a lower slot fails its
\* check first or the file is gone when it is checked.
C14_Amended ==
    /\ [](\A i \in Ord : ZeroByte(i) =>
            /\ segmentFiles[i] = i
            /\ ~mergeStarted
            /\ pc = "done" =>
                  \/ result = "empty" /\ errSeg = i + 1
                  \/ result \in {"missing"} \cup SlotCheckErrors /\ errSeg < i + 1
                  \/ result = "access" /\ errSeg = i + 1 /\ vanished)
    /\ [][\A i \in Ord :
            (wpc[i] = "lockOk" /\ served[i] = "empty" /\ wpc'[i] = "idle") =>
                /\ segmentFiles'[i] = i
                /\ failedSegments' = failedSegments
                /\ stillFailedSegments' = stillFailedSegments]_vars

\* C14 witness: the run ended with the empty-segment error for an ordinal
\* that is not the first and that got its empty body in a retry round.
C14_Witness ==
    \E i \in Ord :
        /\ ZeroByte(i)
        /\ i >= 1
        /\ nfail[i] >= 1
        /\ pc = "done"
        /\ result = "empty"
        /\ errSeg = i + 1

\* The validator's verdict on the file of the slot the verification is at.
Rejected == ValidateTS(FileAt(segmentFiles[vi])) # "ok"

\* C15: with validation on, a rejected file ends the run with the validation
\* error for its slot, with every worker finished, no fetch attempt after
\* it and no merge; with validation off the validator is not called, no
\* validation error occurs, and a run whose slots are all filled with
\* non-empty files succeeds whatever the validator would say.
C15_ValidationAborts ==
    /\ [](result = "invalid" =>
            /\ ValidateFiles
            /\ pc = "done"
            /\ errSeg = vi + 1
            /\ ~mergeStarted
            /\ \A i \in Ord : wpc[i] = "idle")
    /\ [][(pc = "validate" /\ Rejected /\ pc' # pc) =>
            /\ result' = "invalid"
            /\ pc' = "done"
            /\ attempts' = attempts]_vars
    /\ [][result = "invalid" => attempts' = attempts /\ mergeStarted' = mergeStarted]_vars
    /\ [](~ValidateFiles => pc # "validate" /\ result # "invalid")
    /\ []((~ValidateFiles /\ pc = "done" /\ segments > 0 /\ ~SomeSlotEmpty
              /\ (\A i \in Ord : served[i] # "empty") /\ ~envFault /\ ~vanished)
            => result = "ok")

\* C15 witness: the validator rejected the file of a slot that is not the
\* first, after a retry round had run.
C15_Witness ==
    /\ result = "invalid"
    /\ vi >= 1
    /\ served[vi] = "nosync"
    /\ rounds >= 1

\* C16: when Download returns success, the output path holds the
\* concatenation of the segments, and the segment files, their .tmp files,
\* the temporary output and the staging directory are gone.
C16_SuccessLeavesOutput ==
    result = "ok" =>
        /\ outputFile = File(Flatten(ServedBodies))
        /\ ~outputTmp.exists
        /\ \A i \in Ord : ~segFile[i].exists /\ ~segTmp[i].exists
        /\ ~stagingDir

\* The number of bytes ValidateTS reads of the first slot's file, and the
\* number of complete packets among them.
BytesRead == Min(Size(segFile[0].data), HeaderPackets * PacketSize)
CompletePackets == BytesRead \div PacketSize
SyncedPackets == {k \in 1..CompletePackets :
                    ByteAt(segFile[0].data, (k - 1) * PacketSize) = SyncByte}

\* A file of three packets of which those in S start with the sync byte.
ThreePackets(S) == [k \in 1..HeaderPackets |->
                      Blk(IF k \in S THEN SyncByte ELSE 0, PacketSize, 0, 1)]

\* C17: ValidateTS rejects as too small a file of which fewer than 188 bytes
\* can be read; otherwise it accepts exactly when one of the complete
\* packets among the first three starts with 0x47; three packets of which
\* only the first is synced pass, three packets without a synced one fail;
\* and the verification loop ends the run with the validation error
\* exactly when ValidateTS rejects.
C17_ValidateTS ==
    /\ BytesRead < PacketSize => ValidateTS(segFile[0]) = "too small"
    /\ BytesRead >= PacketSize =>
           /\ ValidateTS(segFile[0]) \in {"ok", "no sync"}
           /\ ValidateTS(segFile[0]) = "ok" <=> SyncedPackets # {}
    /\ ValidateTS(File(ThreePackets({1}))) = "ok"
    /\ ValidateTS(File(ThreePackets({}))) = "no sync"
    /\ result = "invalid" <=> (pc = "done" /\ BytesRead > 0 /\ ValidateTS(segFile[0]) # "ok")
    /\ (pc = "verify" /\ vi = 1) => ValidateTS(segFile[0]) = "ok"

\* C17 witness: the validator has passed a file whose only synced packet is
\* the third and which ends in an incomplete packet.
C17_Witness ==
    /\ pc = "verify"
    /\ vi = 1
    /\ SyncedPackets = {HeaderPackets}
    /\ Size(segFile[0].data) > HeaderPackets * PacketSize
    /\ Size(segFile[0].data) % PacketSize # 0

\* The variants a master playlist lists: the positions of the stream tags
\* that are followed by a URI; the value of a tag's BANDWIDTH attribute (0
\* without one); the URLs of the variants whose BANDWIDTH is the highest.
VariantsOf(content) ==
    {k \in 1..(Len(content) - 1) : content[k].kind = "inf" /\ content[k + 1].kind = "uri"}
BandwidthOf(streamInfo) ==
    LET named == {k \in 1..Len(streamInfo.attrs) : streamInfo.attrs[k].name = "BANDWIDTH"}
    IN IF named = {} THEN 0 ELSE streamInfo.attrs[CHOOSE k \in named : TRUE].value
HighestVariantURLs(content, base) ==
    {ResolveLine(base, content[k + 1]) : k \in
        {v \in VariantsOf(content) :
            \A w \in VariantsOf(content) : BandwidthOf(content[w]) <= BandwidthOf(content[v])}}

\* The run has selected a variant of a master playlist.
VariantSelected ==
    /\ IsMasterPlaylist(TopContent(site))
    /\ pc \notin {"start", "resolve"}
    /\ result \notin {"playlistFetch", "noVariant"}

\* C18: for a master playlist the run goes on with the variant whose
\* BANDWIDTH attribute is the highest of all variants listed, with the base
\* URL of that variant's URL, and with the segment list of the variant's
\* playlist.
C18_HighestBandwidthVariant ==
    VariantSelected =>
        /\ url \in HighestVariantURLs(TopContent(site), GetBaseURL(TopURL))
        /\ baseURL = GetBaseURL(url)
        /\ segments > 0 => segmentURLs = ParseSegments(MediaPlaylist(mediaLen), GetBaseURL(url))

\* The errors of Download before downloadSegments.
PlaylistErrors == {"playlistFetch", "variantFetch", "noVariant", "noSegments"}

\* The number of requests for playlists a run with this error has made.
FetchesFor(kind) ==
    CASE kind = "playlistFetch" -> 1
      [] kind = "noVariant" -> 1
      [] kind = "variantFetch" -> 2
      [] OTHER -> IF IsMasterPlaylist(TopContent(site)) THEN 2 ELSE 1

\* C19: a playlist failure ends Download at once: each playlist was asked
\* for once, no segment was fetched, no merge was started, the output is
\* untouched, and no step follows; downloadSegments is entered only with a
\* fetched playlist that lists at least one segment.
C19_PlaylistFailureIsFatal ==
    /\ [](result \in PlaylistErrors =>
            /\ pc = "done"
            /\ fetches = FetchesFor(result)
            /\ segments = 0
            /\ attempts = <<>>
            /\ rounds = 0
            /\ ~mergeStarted
            /\ outputFile = outputOrig)
    /\ [][result \notin PlaylistErrors]_vars
    /\ [](segments > 0 =>
            /\ mediaLen > 0
            /\ site # "noBandwidth"
            /\ segments = mediaLen
            /\ fetches = (IF IsMasterPlaylist(TopContent(site)) THEN 2 ELSE 1))
    /\ []((pc = "done" /\ (mediaLen = 0 \/ site = "noBandwidth")) =>
            result \in PlaylistErrors)

\* C19 witness: the playlist of the selected variant could not be fetched.
C19_Witness ==
    /\ result = "variantFetch"
    /\ fetches = 2
    /\ url # TopURL
    /\ pc = "done"

\* Every worker has finished, and the outcome of every ordinal is recorded:
\* its slot is filled or it is in the failure list.
Quiescent == \A i \in Ord : wpc[i] = "idle"
Recorded == \A i \in Ord : segmentFiles[i] # NoName \/ failedSegments[i] > 0

\* C20: workers exist only between the launch of a pass and its Wait; no
\* ordinal has been attempted more often than passes were launched; a retry
\* round is launched, and the verification is begun, only when every worker
\* of the pass before has finished and recorded its outcome.
C20_PhaseBarriers ==
    /\ [](\A i \in Ord : wpc[i] # "idle" => pc \in {"initWait", "retryWait"})
    /\ [](\A i \in Ord : attempts[i] <= rounds + 1)
    /\ [](pc = "initWait" => rounds = 0)
    /\ [][rounds' # rounds => (rounds' = rounds + 1 /\ Quiescent /\ Recorded)]_vars
    /\ [][(pc' = "verify" /\ pc # "verify" /\ pc # "validate") =>
            (Quiescent /\ Recorded /\ wpc' = wpc)]_vars
    /\ [][\A i \in Ord : attempts'[i] # attempts[i] =>
            (attempts'[i] <= rounds + 1 /\ pc \in {"initWait", "retryWait"})]_vars

\* C20 witness: a worker of the second retry round is inside its fetch.
C20_Witness ==
    /\ pc = "retryWait"
    /\ rounds = 2
    /\ \E i \in Ord : InFetch(i) /\ attempts[i] = 3
\* ---------------------------------------------------------------- C21
\* The goroutines a launch starts for ordinal i: one in the initial pass, one
\* per occurrence of i in failedSegments in a retry round.
Slots == {i \in Ord : segmentFiles[i] # NoName}
Active(i) == wpc[i] # "idle"

\* C21: every result slot starts empty and is written at most once, by the
\* worker of its ordinal and only after that worker's downloadFile returned
\* nil; a written slot keeps its value and never becomes empty again; an
\* ordinal is in a failure list at most once and is launched only when no
\* worker of that ordinal is active, so no two workers are ever active on the
\* same ordinal.
C21_SlotWrittenOnce ==
    /\ [](pc = "initial" => \A i \in Ord : segmentFiles[i] = NoName)
    /\ [](\A i \in Ord : failedSegments[i] <= 1 /\ stillFailedSegments[i] <= 1)
    /\ [](\A i \in Ord : segmentFiles[i] \in {NoName, i})
    /\ [][\A i \in Ord : segmentFiles'[i] # segmentFiles[i] =>
            /\ segmentFiles[i] = NoName
            /\ wpc[i] = "lockOk" /\ mu = i
            /\ attempts[i] = nfail[i] + 1]_vars
    /\ [][\A i \in Ord : (wpc[i] = "lockOk" /\ wpc'[i] # "lockOk") =>
            segmentFiles[i] = NoName]_vars
    /\ [][\A i \in Ord : (wpc'[i] = "wait" /\ pc # pc') => ~Active(i)]_vars
C21_Witness ==
    /\ pc = "retryWait"
    /\ \E i, j \in Ord :
         /\ i # j
         /\ segmentFiles[i] = i /\ attempts[i] = 2
         /\ InFetch(j)

\* ---------------------------------------------------------------- C22
\* C22: an ordinal whose fetch succeeded is never fetched or launched again
\* and is in no failure list a later round is built from; each round's
\* failure set is a subset of the one before; after the retry phase no worker
\* is left, every ordinal is either filled or still empty and in the failure
\* set, and the slots do not change any more.
C22_SuccessIsFinal ==
    /\ [][\A i \in Ord : (FetchSucceeded(i) \/ segmentFiles[i] # NoName) =>
            (attempts'[i] = attempts[i] /\ wpc'[i] # "wait")]_vars
    /\ [](\A i \in Ord : segmentFiles[i] # NoName =>
            /\ stillFailedSegments[i] = 0
            /\ pc # "retryWait" => failedSegments[i] = 0)
    /\ [](pc = "retryWait" => Members(stillFailedSegments) \subseteq Members(failedSegments))
    /\ [][pc # "initWait" => Members(failedSegments') \subseteq Members(failedSegments)]_vars
    /\ [](pc \in PostRetry =>
            \A i \in Ord : /\ ~Active(i)
                            /\ (segmentFiles[i] = NoName) = (failedSegments[i] > 0))
    /\ [][(pc \in PostRetry) => (segmentFiles' = segmentFiles)]_vars
C22_Witness ==
    /\ pc = "retryWait"
    /\ rounds = 2
    /\ \E i, j \in Ord :
         /\ segmentFiles[i] = i /\ attempts[i] = 2 /\ failedSegments[i] = 0
         /\ InFetch(j) /\ attempts[j] = 3

\* ---------------------------------------------------------------- C23
\* The control flow is at a barrier: wg.Wait() or retryWg.Wait() can return
\* or has returned, and no later round has been launched.
AtInitialBarrier == pc = "initWait" /\ Quiescent
AtRetryBarrier == pc = "retryWait" /\ Quiescent
BetweenRounds == pc \in {"retryLoop", "backoff", "launchRetry"}

\* The list the workers of the phase just finished appended their failures to.
CurrentFailures == IF AtRetryBarrier THEN stillFailedSegments ELSE failedSegments

\* C23: at every barrier, with the cancellation signal not raised, the
\* filled slots and the current failure list are disjoint, the list names no
\* ordinal twice, and together they are all the ordinals 0..N-1.
C23_BarrierPartition ==
    ((AtInitialBarrier \/ AtRetryBarrier \/ BetweenRounds) /\ ~ctxDone) =>
        /\ Slots \cap Members(CurrentFailures) = {}
        /\ \A i \in Ord : CurrentFailures[i] <= 1
        /\ Slots \cup Members(CurrentFailures) = Ord
C23_Witness ==
    /\ AtRetryBarrier
    /\ rounds = 2
    /\ Slots # {}
    /\ Members(stillFailedSegments) # {}
    /\ Members(stillFailedSegments) # Members(failedSegments)

\* ---------------------------------------------------------------- C25
\* downloadSegments has returned, with the slots or with an error.
InDownloadSegments == {"initial", "initWait", "retryLoop", "backoff", "launchRetry",
                       "retryWait", "verify", "validate"}
Returned == pc \notin InDownloadSegments

\* C25: with at least one thread, whatever the number of segments and of
\* retries, under fair scheduling and with fetches that end, downloadSegments
\* eventually returns; when it has returned no worker is left and the
\* semaphore is empty.
C25_Terminates ==
    /\ (Threads >= 1) ~> Returned
    /\ [](Returned => (Quiescent /\ semaphore = 0 /\ mu = NoName))
C25_Witness ==
    /\ Returned
    /\ Threads = 1
    /\ segments = MaxSeg
    /\ rounds = MaxRetryBound
    /\ \A i \in Ord : attempts[i] >= 2

\* ---------------------------------------------------------------- C26
\* C26: with Threads = 0 (and at least one segment) no worker ever acquires
\* the semaphore, no fetch is started, the control flow never gets past the
\* wg.Wait() of the initial pass and no error is returned: once the workers
\* are launched nothing can take a step.
C26_ZeroThreadsDeadlock ==
    Threads = 0 =>
        /\ semaphore = 0
        /\ \A i \in Ord : attempts[i] = 0 /\ wpc[i] \in {"idle", "wait"}
        /\ pc \in {"initial", "initWait"}
        /\ result = "running"
        /\ ~ctxDone
        /\ pc = "initWait" => (~ENABLED Next /\ \A i \in Ord : wpc[i] = "wait")
C26_Witness ==
    /\ Threads = 0
    /\ segments = MaxSeg
    /\ pc = "initWait"
    /\ \A i \in Ord : wpc[i] = "wait"

\* ---------------------------------------------------------------- C27
\* 1 + 2 + ... + r
Triangular(r) == (r * (r + 1)) \div 2

HoldsMutex(i) == wpc[i] \in {"lockOk", "lockErr"}
Bookkeeping == <<segmentFiles, failedSegments, stillFailedSegments>>

\* C28: the mutex is held only by a worker whose downloadFile has returned
\* and which has not yet recorded, never by one waiting or inside a fetch; a
\* worker that wants to record is held up at most by another worker that is
\* itself recording, whatever fetches are in progress; and every change a
\* worker makes to a result slot or a failure list is made by the holder of
\* the mutex, to its own ordinal, in the step that ends with the unlock.
C28_MutexOnlyForBookkeeping ==
    /\ [](\A i \in Ord : (mu = i) = HoldsMutex(i))
    /\ [](mu # NoName => mu \in Ord)
    /\ [](\A j \in Ord : (FetchSucceeded(j) \/ FetchFailed(j)) =>
            \/ ENABLED Lock(j)
            \/ HoldsMutex(j)
            \/ \E i \in Ord : i # j /\ HoldsMutex(i) /\ ENABLED Record(i))
    /\ [][(pc' = pc /\ Bookkeeping' # Bookkeeping) =>
            \E i \in Ord :
               /\ mu = i /\ HoldsMutex(i) /\ mu' = NoName
               /\ \A j \in Ord \ {i} :
                    /\ segmentFiles'[j] = segmentFiles[j]
                    /\ failedSegments'[j] = failedSegments[j]
                    /\ stillFailedSegments'[j] = stillFailedSegments[j]]_vars
C28_Witness ==
    /\ pc = "retryWait"
    /\ \E i, j \in Ord :
         /\ wpc[i] = "copy"
         /\ mu = j /\ wpc[j] = "lockErr"

\* ---------------------------------------------------------------- C29
\* C29: when the output of an earlier run was there, its removal succeeded
\* and the rename of the temporary output then fails, mergeSegments returns
\* the rename error with the temporary output removed and nothing at the
\* output path: the earlier output is lost and the new one is not installed.
C29_RenameFailureLosesOutput ==
    /\ [](result = "mergeRename" =>
            /\ pc = "done"
            /\ ~outputTmp.exists
            /\ outputOrig.exists => ~outputFile.exists)
    /\ [][(pc = "mergeRename" /\ pc' # pc /\ result' = "mergeRename") =>
            ~outputFile.exists /\ ~outputFile'.exists /\ outputTmp.exists]_vars
C29_Witness ==
    /\ result = "mergeRename"
    /\ outputOrig.exists
    /\ segments = MaxSeg
    /\ ~outputFile.exists

====
